---- MODULE Spec2Model ----
(***************************************************************************)
(* Frame-selection pipeline of backend/ad_processing/frame_extractor.py    *)
(* (class ViralFrameExtractor).                                            *)
(*                                                                         *)
(* Time is counted in ticks of 1/3600 s, so that the detector's sampling   *)
(* interval (1/6 s = 600), the minimum scene duration (0.5 s = 1800), the  *)
(* end margin (0.1 s = 360) and every sampling position (halves, thirds,   *)
(* quarters, fifths of a scene) are whole numbers for the video lengths    *)
(* drawn below.  Arithmetic is exact: the rounding of Python floats is not *)
(* modelled.  Similarities are counted in hundredths.                      *)
(*                                                                         *)
(* Images are abstracted away: extract_single_frame either yields a frame  *)
(* (its timestamp, type tag, scene id, duration) or fails, and the         *)
(* similarity metrics of a comparison are drawn from small sets.           *)
(***************************************************************************)
EXTENDS Integers, Sequences, FiniteSets, TLC

VARIABLES
    pc,                   \* position inside extract_frames and its callees
    duration,             \* the duration of the video file, in ticks (environment)
    max_frames_per_video, \* self.max_frames_per_video
    video_length,         \* extract_frames: video_length (0 before the probe)
    current_time,         \* detect_jump_cut_timestamps: current_time
    previous_frame,       \* detect_jump_cut_timestamps: <<>> (None) or <<t>>, the reference frame's timestamp
    jump_cut_timestamps,  \* the detector's candidate list
    selected_timestamps,  \* extract_frames_from_timestamps: selected_timestamps
    scenes,               \* extract_frames_from_timestamps: scenes
    frame_allocation,     \* extract_frames_from_scenes: frame_allocation
    scene_idx,            \* extract_frames_from_scenes: 1-based index of the next scene of the loop
    all_frames,           \* extract_frames_from_scenes: all_frames
    frames,               \* extract_frames: frames (the returned list once pc = "done")
    cuts_detected,        \* len(jump_cut_timestamps) as logged by extract_frames (0 before detection)
    n_calls,              \* history: number of extract_single_frame calls made
    decoded,              \* history: some extract_single_frame call returned a frame
    requested,            \* history: per scene sampled, the timestamps _extract_scene_frames asked for
    scan,                 \* history: the detector's latest extraction and comparison
    files,                \* the files on disk: path -> the call that last wrote the file
    now,                  \* int(time.time()), in seconds since the first call started
    enc,                  \* per FrameData.to_base64 call: its position and locals
    audio,                \* the AudioExtractor.extract_audio call: its position and locals
    analyzer,             \* the _analyze_single_call_all_frames call: its position and locals
    main_pc               \* position inside VideoProcessor.process_video

vars == <<pc, duration, max_frames_per_video, video_length, current_time,
          previous_frame, jump_cut_timestamps, selected_timestamps, scenes,
          frame_allocation, scene_idx, all_frames, frames, cuts_detected,
          n_calls, decoded, requested, scan, files, now, enc, audio, analyzer,
          main_pc>>

io_vars == <<files, now, enc, audio, analyzer, main_pc>>

(***************************************************************************)
(* Bounds of the model.                                                    *)
(***************************************************************************)
MaxFrames == 7          \* max_frames_per_video ranges over 1..MaxFrames
MaxTotalFrames == 8     \* the allocator's budget ranges over 1..MaxTotalFrames
MaxCandidates == 3      \* the detector records at most this many candidates (sentinel included)
MaxScenes == 3          \* longest scene list handed to the allocator on its own

\* Durations of the video files (0.4 s, 1 s, 1.6 s, and 2 s which is over the limit).
VideoDurations == {1440, 3600, 5760, 7200}
\* Scene durations handed to the allocator on its own (0.667 s, 1 s, 10 s).
SceneDurations == {2400, 3600, 36000}
\* Values the metrics of one comparison can take, in hundredths.
HistSims == {-40, 90}   \* _histogram_comparison: weighted correlations, each in [-1, 1]
DeltaInts == {10, 30}   \* _delta_intensity: exp(-diff/30), in (0, 1]
HashSims == {40, 100}   \* _perceptual_hash: 1 - hamming/256, in [0, 1]

(***************************************************************************)
(* Program constants and configuration.                                    *)
(***************************************************************************)
interval == 600             \* 1.0 / fps with fps = 6.0
MinSceneDuration == 1800    \* 0.5 s
EndMargin == 360            \* 0.1 s
MaxFramesPerScene == 6
jump_cut_threshold == 65    \* 0.65
max_video_duration == 6000  \* self.max_video_duration, here 1.667 s

None == <<>>

Min(a, b) == IF a < b THEN a ELSE b
Max(a, b) == IF a > b THEN a ELSE b

RECURSIVE SeqSum(_)
SeqSum(s) == IF s = <<>> THEN 0 ELSE Head(s) + SeqSum(Tail(s))

\* Python's s[:n] for n >= 0.
Prefix(s, n) == SubSeq(s, 1, Min(n, Len(s)))

(***************************************************************************)
(* sorted(..., key=...) / list.sort(key=...): stable, ascending.  SortSeq  *)
(* inserts each element after the elements that do not compare greater,    *)
(* so elements with equal keys keep their order.                           *)
(***************************************************************************)
SortedDescending(s) == SortSeq(s, LAMBDA a, b : a.timestamp > b.timestamp)

\* all_frames.sort(key=lambda f: f.timestamp), also timestamps.sort(key=lambda x: x[0])
SortByTimestamp(s) == SortSeq(s, LAMBDA a, b : a.timestamp < b.timestamp)

\* sorted(jump_cut_timestamps, key=lambda x: x[1]['combined_score'])
SortByScore(s) == SortSeq(s, LAMBDA a, b : a.combined_score < b.combined_score)

(***************************************************************************)
(* extract_single_frame: the FrameData it builds on success.               *)
(***************************************************************************)
FrameData(timestamp) ==
    [timestamp |-> timestamp, frame_type |-> "interval",
     scene_id |-> None, duration |-> None]

(***************************************************************************)
(* get_video_length: the duration check.                                   *)
(***************************************************************************)
ExceedsLimitUnchecked(d) == FALSE

ExceedsLimit(d) == d > max_video_duration

(***************************************************************************)
(* detect_jump_cut_timestamps                                              *)
(***************************************************************************)
first_metrics == [timestamp |-> 0, combined_score |-> 0]

\* what the detector returns when the frame at t = 0 cannot be extracted
FirstFrameFailedEmpty(candidates) == <<>>

FirstFrameFailed(candidates) == candidates

IsJumpCutAtThreshold(hist_sim, hash_sim) == hist_sim + 3 * hash_sim <= 4 * jump_cut_threshold

\* combined_sim < threshold, with combined_sim = hist_sim * 0.25 + hash_sim * 0.75
IsJumpCut(hist_sim, hash_sim) == hist_sim + 3 * hash_sim < 4 * jump_cut_threshold

\* (hist_sim + delta_int) / 2
CombinedScore(hist_sim, delta_int) == (hist_sim + delta_int) \div 2

(***************************************************************************)
(* select_most_significant_timestamps                                      *)
(***************************************************************************)
\* the max_count most significant candidates, left in score order
SelectWithoutResort(candidates, max_count) ==
    IF Len(candidates) <= max_count THEN candidates
    ELSE Prefix(SortByScore(candidates), max_count)

\* every candidate is kept, however many there are
SelectAll(candidates, max_count) == candidates

\* the first max_count candidates, whatever their scores
SelectEarliest(candidates, max_count) ==
    IF Len(candidates) <= max_count THEN candidates
    ELSE Prefix(candidates, max_count)

SelectMostSignificantTimestamps(candidates, max_count) ==
    IF Len(candidates) <= max_count THEN candidates
    ELSE SortByTimestamp(Prefix(SortByScore(candidates), max_count))

(***************************************************************************)
(* define_scenes_from_timestamps                                           *)
(***************************************************************************)
\* an interval of exactly the minimum duration is kept
RECURSIVE ScenesFromAtLeast(_, _, _)
ScenesFromAtLeast(timestamp_values, vlen, i) ==
    IF i > Len(timestamp_values) THEN <<>>
    ELSE LET start_time == timestamp_values[i]
             end_time == IF i = Len(timestamp_values) THEN vlen
                         ELSE timestamp_values[i + 1]
             d == end_time - start_time
             rest == ScenesFromAtLeast(timestamp_values, vlen, i + 1)
         IN IF d >= MinSceneDuration
            THEN <<[start |-> start_time, end |-> end_time, duration |-> d]>> \o rest
            ELSE rest

\* the last boundary opens no scene
RECURSIVE ScenesFromNoLast(_, _, _)
ScenesFromNoLast(timestamp_values, vlen, i) ==
    IF i >= Len(timestamp_values) THEN <<>>
    ELSE LET start_time == timestamp_values[i]
             end_time == timestamp_values[i + 1]
             d == end_time - start_time
             rest == ScenesFromNoLast(timestamp_values, vlen, i + 1)
         IN IF d > MinSceneDuration
            THEN <<[start |-> start_time, end |-> end_time, duration |-> d]>> \o rest
            ELSE rest

RECURSIVE ScenesFrom(_, _, _)
ScenesFrom(timestamp_values, vlen, i) ==
    IF i > Len(timestamp_values) THEN <<>>
    ELSE LET start_time == timestamp_values[i]
             end_time == IF i = Len(timestamp_values) THEN vlen
                         ELSE timestamp_values[i + 1]
             d == end_time - start_time
             rest == ScenesFrom(timestamp_values, vlen, i + 1)
         IN IF d > MinSceneDuration
            THEN <<[start |-> start_time, end |-> end_time, duration |-> d]>> \o rest
            ELSE rest

DefineScenesFromTimestamps(timestamps, vlen) ==
    IF timestamps = <<>> THEN <<>>
    ELSE LET sorted == SortByTimestamp(timestamps)
             timestamp_values == [i \in 1..Len(sorted) |-> sorted[i].timestamp]
         IN ScenesFrom(timestamp_values, vlen, 1)

(***************************************************************************)
(* _allocate_frames_to_scenes                                              *)
(***************************************************************************)
TotalDuration(scene_list) ==
    SeqSum([i \in 1..Len(scene_list) |-> scene_list[i].duration])

\* every scene, the last one too, gets its proportional share
FramesForSceneNoRemainder(scene_list, total_frames, i, frames_allocated) ==
    Max(1, (scene_list[i].duration * total_frames) \div TotalDuration(scene_list))

\* frames_for_scene before the per-scene cap; int() of a non-negative
\* product is its floor
FramesForScene(scene_list, total_frames, i, frames_allocated) ==
    IF i = Len(scene_list)
    THEN total_frames - frames_allocated
    ELSE Max(1, (scene_list[i].duration * total_frames) \div TotalDuration(scene_list))

\* the per-scene cap spares the last scene, which takes the whole remainder
RECURSIVE AllocationLoopLastUncapped(_, _, _, _)
AllocationLoopLastUncapped(scene_list, total_frames, i, allocation) ==
    IF i > Len(scene_list) THEN allocation
    ELSE LET share == FramesForScene(scene_list, total_frames, i, SeqSum(allocation))
             frames_for_scene == IF i = Len(scene_list) THEN share
                                 ELSE Min(share, MaxFramesPerScene)
         IN AllocationLoopLastUncapped(scene_list, total_frames, i + 1,
                                       Append(allocation, frames_for_scene))

\* the for loop: allocation holds the counts of scenes 1..i-1
RECURSIVE AllocationLoop(_, _, _, _)
AllocationLoop(scene_list, total_frames, i, allocation) ==
    IF i > Len(scene_list) THEN allocation
    ELSE LET frames_for_scene ==
                 Min(FramesForScene(scene_list, total_frames, i, SeqSum(allocation)),
                     MaxFramesPerScene)
         IN AllocationLoop(scene_list, total_frames, i + 1,
                           Append(allocation, frames_for_scene))

SeqMax(s) == CHOOSE m \in {s[i] : i \in 1..Len(s)} : \A i \in 1..Len(s) : s[i] <= m

\* allocation.index(max(allocation)): the first index holding the maximum
IndexOfMax(s) == CHOOSE i \in 1..Len(s) :
    /\ s[i] = SeqMax(s)
    /\ \A j \in 1..(i - 1) : s[j] # SeqMax(s)

\* the while loop: take one frame from the scene with the most, never below 1
RECURSIVE Reconcile(_, _)
Reconcile(allocation, total_frames) ==
    IF SeqSum(allocation) > total_frames
    THEN LET max_idx == IndexOfMax(allocation)
         IN IF allocation[max_idx] > 1
            THEN Reconcile([allocation EXCEPT ![max_idx] = @ - 1], total_frames)
            ELSE allocation
    ELSE allocation

AllocateFramesToScenes(scene_list, total_frames) ==
    IF scene_list = <<>> THEN <<>>
    ELSE Reconcile(AllocationLoop(scene_list, total_frames, 1, <<>>), total_frames)

(***************************************************************************)
(* _extract_scene_frames                                                   *)
(***************************************************************************)
\* interior positions spread over middle_frames + 2 parts
PositionsNarrowInterior(frame_count) ==
    IF frame_count = 1 THEN << <<1, 2>> >>
    ELSE IF frame_count = 2 THEN << <<1, 3>>, <<2, 3>> >>
    ELSE IF frame_count = 3 THEN << <<0, 1>>, <<1, 2>>, <<1, 1>> >>
    ELSE LET middle_frames == frame_count - 2
         IN << <<0, 1>> >>
            \o [i \in 1..middle_frames |-> <<i, middle_frames + 2>>]
            \o << <<1, 1>> >>

\* positions, each a fraction <<numerator, denominator>> of the scene
Positions(frame_count) ==
    IF frame_count = 1 THEN << <<1, 2>> >>
    ELSE IF frame_count = 2 THEN << <<1, 3>>, <<2, 3>> >>
    ELSE IF frame_count = 3 THEN << <<0, 1>>, <<1, 2>>, <<1, 1>> >>
    ELSE LET middle_frames == frame_count - 2
         IN << <<0, 1>> >>
            \o [i \in 1..middle_frames |-> <<i, middle_frames + 1>>]
            \o << <<1, 1>> >>

\* position 1.0 sampled at the scene's end, no margin, no clamp
SceneTimestampAtEnd(scene, position) ==
    scene.start + (scene.duration * position[1]) \div position[2]

\* every position sampled at the middle of the scene
SceneTimestampMiddle(scene, position) == scene.start + scene.duration \div 2

\* positions measured from the start of the video, not of the scene
SceneTimestampFromZero(scene, position) ==
    Min((scene.duration * position[1]) \div position[2], scene.end - EndMargin)

SceneTimestamp(scene, position) ==
    LET timestamp == IF position[1] >= position[2]
                     THEN scene.end - EndMargin
                     ELSE scene.start + (scene.duration * position[1]) \div position[2]
    IN Max(scene.start, Min(timestamp, scene.end - EndMargin))

\* the frames of positions i.. whose extraction succeeded (extracted[i])
RECURSIVE SceneFramesFrom(_, _, _, _, _)
SceneFramesFrom(scene, positions, scene_id, extracted, i) ==
    IF i > Len(positions) THEN <<>>
    ELSE LET rest == SceneFramesFrom(scene, positions, scene_id, extracted, i + 1)
             frame == [FrameData(SceneTimestamp(scene, positions[i])) EXCEPT
                          !.frame_type = IF i = 1 THEN "jump_cut" ELSE "scene_interval",
                          !.scene_id = <<scene_id>>]
         IN IF extracted[i] THEN <<frame>> \o rest ELSE rest

ExtractSceneFrames(scene, frame_count, scene_id, extracted) ==
    IF frame_count <= 0 THEN <<>>
    ELSE SceneFramesFrom(scene, Positions(frame_count), scene_id, extracted, 1)

\* the timestamps handed to extract_single_frame, in call order
RequestedTimestamps(scene, frame_count) ==
    IF frame_count <= 0 THEN <<>>
    ELSE [i \in 1..Len(Positions(frame_count)) |->
             SceneTimestamp(scene, Positions(frame_count)[i])]

\* number of extract_single_frame calls _extract_scene_frames makes
SceneCalls(frame_count) == IF frame_count <= 0 THEN 0 ELSE Len(Positions(frame_count))

(***************************************************************************)
(* extract_interval_frames_to_target                                       *)
(***************************************************************************)
IntervalTimestamp(vlen, target_count, i) == (i * vlen) \div (target_count + 1)

\* indices 1..target_count reached before the loop breaks (timestamp >= video_length,
\* compared exactly)
IntervalReached(vlen, target_count) ==
    {i \in 1..target_count :
        \A j \in 1..i : j * vlen < vlen * (target_count + 1)}

RECURSIVE IntervalFramesFrom(_, _, _, _)
IntervalFramesFrom(vlen, target_count, extracted, i) ==
    IF i \notin IntervalReached(vlen, target_count) THEN <<>>
    ELSE LET rest == IntervalFramesFrom(vlen, target_count, extracted, i + 1)
         IN IF extracted[i]
            THEN <<FrameData(IntervalTimestamp(vlen, target_count, i))>> \o rest
            ELSE rest

ExtractIntervalFramesToTarget(vlen, target_count, extracted) ==
    IntervalFramesFrom(vlen, target_count, extracted, 1)

(***************************************************************************)
(* calculate_frame_durations                                               *)
(***************************************************************************)
\* the last frame is given the whole video length
FrameDurationWholeVideo(frame_list, vlen, i) ==
    IF i = Len(frame_list)
    THEN vlen
    ELSE frame_list[i + 1].timestamp - frame_list[i].timestamp

FrameDuration(frame_list, vlen, i) ==
    IF i = Len(frame_list)
    THEN vlen - frame_list[i].timestamp
    ELSE frame_list[i + 1].timestamp - frame_list[i].timestamp

CalculateFrameDurations(frame_list, vlen) ==
    [i \in 1..Len(frame_list) |->
        [frame_list[i] EXCEPT !.duration = <<FrameDuration(frame_list, vlen, i)>>]]

(***************************************************************************)
(* Files.  A path is <<suffix, a, b>>; files maps each existing path to    *)
(* the call that last wrote it.                                            *)
(***************************************************************************)
VideoPath == <<"mp4", 0, 0>>        \* temp_video_path
WavPath == <<"wav", 0, 0>>          \* the name mkstemp(suffix=".wav") hands out
TempDir == <<"frames_validation", 0, 0>>   \* the name mkdtemp hands out

WriteFile(fs, path, owner) ==
    [q \in DOMAIN fs \cup {path} |-> IF q = path THEN owner ELSE fs[q]]

\* a removal that leaves the file in place
KeepFile(fs, path) == fs

\* os.remove / shutil.rmtree of an existing path
RemoveFile(fs, path) == [q \in DOMAIN fs \ {path} |-> fs[q]]

Exists(path) == path \in DOMAIN files

\* the paths a call has left on disk
FilesOf(owner) == {q \in DOMAIN files : files[q] = owner}

\* ffprobe and ffmpeg can only read a video that is on disk
VideoReadable == Exists(VideoPath)

(***************************************************************************)
(* FrameData.to_base64: the name of the temporary JPEG.                    *)
(***************************************************************************)
\* f"{self.timestamp:.2f}": the timestamp rounded to hundredths of a second
\* (36 ticks)
TimestampStr(timestamp) == (timestamp + 18) \div 36

\* temp_frame_{timestamp_str}_{int(time.time())}.jpg in tempfile.gettempdir()
TempPath(timestamp, seconds) == <<"jpg", TimestampStr(timestamp), seconds>>

Encoders == {"call_a", "call_b"}

NoCall ==
    [pc |-> "idle", timestamp |-> 0, temp_path |-> None, exists_seen |-> FALSE,
     raising |-> FALSE, removal_failed |-> FALSE, foreign |-> FALSE]

\* ffmpeg_ok and whisper_ok: whether ffmpeg can extract the video's audio
\* track and whether Whisper transcribes it (the environment's answers)
NoAudio ==
    [pc |-> "idle", temp_audio_path |-> None, result |-> None,
     removal_failed |-> FALSE, ffmpeg_ok |-> TRUE, whisper_ok |-> TRUE]

NoAnalysis == [pc |-> "idle", raising |-> FALSE, removal_failed |-> FALSE]

\* only the downloaded video is on disk and no other call is in progress
IoIdle ==
    /\ files = [q \in {VideoPath} |-> "download"]
    /\ now = 0
    /\ enc = [c \in Encoders |-> NoCall]
    /\ audio = NoAudio
    /\ analyzer = NoAnalysis
    /\ main_pc = "idle"

(***************************************************************************)
(* The state after construction: ViralFrameExtractor() and a video file.   *)
(***************************************************************************)
Idle ==
    /\ current_time = 0
    /\ previous_frame = None
    /\ jump_cut_timestamps = <<>>
    /\ selected_timestamps = <<>>
    /\ frame_allocation = <<>>
    /\ scene_idx = 0
    /\ all_frames = <<>>
    /\ frames = <<>>
    /\ cuts_detected = 0
    /\ n_calls = 0
    /\ decoded = FALSE
    /\ requested = <<>>
    /\ scan = None

Init ==
    /\ pc = "start"
    /\ duration \in VideoDurations
    /\ max_frames_per_video \in 1..MaxFrames
    /\ video_length = 0
    /\ scenes = <<>>
    /\ Idle
    /\ IoIdle

\* extract_frames line 372: the budget handed down as max_frames
max_frames_plus_one == max_frames_per_video + 1

max_frames == max_frames_per_video

(***************************************************************************)
(* extract_frames, first step: get_video_length.  ffprobe fails or         *)
(* reports the file's duration; a failure and a duration over the limit    *)
(* both raise ValueError, which extract_frames re-raises.                  *)
(***************************************************************************)
GetVideoLength ==
    /\ pc = "start"
    /\ \E probe_ok \in BOOLEAN :
          /\ probe_ok => VideoReadable
          /\ IF probe_ok /\ ~ExceedsLimit(duration)
             THEN /\ video_length' = duration
                  /\ pc' = "detect"
             ELSE /\ video_length' = video_length
                  /\ pc' = "raised"
    /\ UNCHANGED <<duration, max_frames_per_video, current_time, previous_frame,
                   jump_cut_timestamps, selected_timestamps, scenes,
                   frame_allocation, scene_idx, all_frames, frames,
                   cuts_detected, n_calls, decoded>>
    /\ UNCHANGED <<requested, scan>>
    /\ UNCHANGED io_vars

\* the extraction of the first frame, which is compared with nothing
FirstExtraction ==
    [timestamp |-> 0, extracted |-> TRUE, compared_with |-> None,
     combined_sim |-> 0, earlier_ok |-> None, latest_ok |-> <<0>>]

\* _combined_similarity: hist_sim * 0.25 + hash_sim * 0.75, here times four
CombinedSimilarity(hist_sim, hash_sim) == hist_sim + 3 * hash_sim

\* the scan moves on only after a successful extraction
AdvanceOnSuccess(current, extracted) ==
    IF extracted THEN current + interval ELSE current

\* current_time after one iteration of the loop: lines 422 and 446
AdvanceTime(current, extracted) == current + interval

ReferenceOnlyAtCuts(previous, current, extracted, is_jump_cut) ==
    IF extracted /\ is_jump_cut THEN <<current>> ELSE previous

\* previous_frame after one iteration of the loop: lines 421-423 leave it
\* alone when the extraction failed, line 445 replaces it otherwise
ReferenceAfter(previous, current, extracted, is_jump_cut) ==
    IF extracted THEN <<current>> ELSE previous

(***************************************************************************)
(* detect_jump_cut_timestamps up to the loop: the t = 0 sentinel and the   *)
(* extraction of the first frame.                                          *)
(***************************************************************************)
DetectFirstFrame ==
    /\ pc = "detect"
    /\ n_calls' = n_calls + 1
    /\ \E extracted \in BOOLEAN :
          /\ extracted => VideoReadable
          /\ IF extracted
             THEN /\ jump_cut_timestamps' = <<first_metrics>>
                  /\ previous_frame' = <<0>>
                  /\ current_time' = interval
                  /\ decoded' = TRUE
                  /\ cuts_detected' = cuts_detected
                  /\ scan' = <<FirstExtraction>>
                  /\ pc' = "scan"
             ELSE /\ jump_cut_timestamps' = FirstFrameFailed(<<first_metrics>>)
                  /\ previous_frame' = None
                  /\ current_time' = 0
                  /\ decoded' = decoded
                  /\ cuts_detected' = Len(jump_cut_timestamps')
                  /\ scan' = None
                  /\ pc' = "from_timestamps"
    /\ UNCHANGED <<duration, max_frames_per_video, video_length,
                   selected_timestamps, scenes, frame_allocation, scene_idx,
                   all_frames, frames>>
    /\ UNCHANGED requested
    /\ UNCHANGED io_vars

(***************************************************************************)
(* One iteration of the detector's while loop.                             *)
(***************************************************************************)
DetectScan ==
    /\ pc = "scan"
    /\ current_time < video_length
    /\ n_calls' = n_calls + 1
    /\ \E extracted \in BOOLEAN, hist_sim \in HistSims, delta_int \in DeltaInts,
          hash_sim \in HashSims :
          /\ extracted => VideoReadable
          /\ IF ~extracted
             THEN /\ jump_cut_timestamps' = jump_cut_timestamps
                  /\ decoded' = decoded
                  /\ scan' = <<[timestamp |-> current_time, extracted |-> FALSE,
                                compared_with |-> None, combined_sim |-> 0,
                                earlier_ok |-> scan[1].latest_ok,
                                latest_ok |-> scan[1].latest_ok]>>
             ELSE /\ IsJumpCut(hist_sim, hash_sim) => Len(jump_cut_timestamps) < MaxCandidates
                  /\ jump_cut_timestamps' =
                        IF IsJumpCut(hist_sim, hash_sim)
                        THEN Append(jump_cut_timestamps,
                                    [timestamp |-> current_time,
                                     combined_score |-> CombinedScore(hist_sim, delta_int)])
                        ELSE jump_cut_timestamps
                  /\ decoded' = TRUE
                  /\ scan' = <<[timestamp |-> current_time, extracted |-> TRUE,
                                compared_with |-> previous_frame,
                                combined_sim |-> CombinedSimilarity(hist_sim, hash_sim),
                                earlier_ok |-> scan[1].latest_ok,
                                latest_ok |-> <<current_time>>]>>
          /\ previous_frame' = ReferenceAfter(previous_frame, current_time, extracted,
                                              IsJumpCut(hist_sim, hash_sim))
          /\ current_time' = AdvanceTime(current_time, extracted)
    /\ UNCHANGED <<pc, duration, max_frames_per_video, video_length,
                   selected_timestamps, scenes, frame_allocation, scene_idx,
                   all_frames, frames, cuts_detected>>
    /\ UNCHANGED requested
    /\ UNCHANGED io_vars

\* the loop condition fails: return jump_cut_timestamps to extract_frames
DetectReturn ==
    /\ pc = "scan"
    /\ current_time >= video_length
    /\ cuts_detected' = Len(jump_cut_timestamps)
    /\ current_time' = 0
    /\ previous_frame' = None
    /\ scan' = None
    /\ pc' = "from_timestamps"
    /\ UNCHANGED <<duration, max_frames_per_video, video_length,
                   jump_cut_timestamps, selected_timestamps, scenes,
                   frame_allocation, scene_idx, all_frames, frames, n_calls,
                   decoded>>
    /\ UNCHANGED requested
    /\ UNCHANGED io_vars

(***************************************************************************)
(* extract_frames_from_timestamps up to its call of                        *)
(* extract_frames_from_scenes: the ranker and the segmenter, or, for an    *)
(* empty candidate list, the whole of extract_interval_frames_to_target.   *)
(***************************************************************************)
ExtractFramesFromTimestamps ==
    /\ pc = "from_timestamps"
    /\ IF jump_cut_timestamps = <<>>
       THEN \E extracted \in [1..max_frames -> BOOLEAN] :
               /\ (\E i \in 1..max_frames : extracted[i]) => VideoReadable
               /\ frames' = ExtractIntervalFramesToTarget(video_length, max_frames, extracted)
               /\ n_calls' = n_calls + Cardinality(IntervalReached(video_length, max_frames))
               /\ decoded' = (decoded \/ frames' # <<>>)
               /\ selected_timestamps' = selected_timestamps
               /\ scenes' = scenes
               /\ pc' = "durations"
       ELSE /\ selected_timestamps' =
                  IF Len(jump_cut_timestamps) > max_frames
                  THEN SelectMostSignificantTimestamps(jump_cut_timestamps, max_frames)
                  ELSE jump_cut_timestamps
            /\ scenes' = DefineScenesFromTimestamps(selected_timestamps', video_length)
            /\ pc' = "from_scenes"
            /\ UNCHANGED <<frames, n_calls, decoded>>
    /\ UNCHANGED <<duration, max_frames_per_video, video_length, current_time,
                   previous_frame, jump_cut_timestamps, frame_allocation,
                   scene_idx, all_frames, cuts_detected>>
    /\ UNCHANGED <<requested, scan>>
    /\ UNCHANGED io_vars

(***************************************************************************)
(* extract_frames_from_scenes up to its loop: no scene returns [], else    *)
(* the allocator runs.  The candidate lists are not read again.            *)
(***************************************************************************)
AllocateFrames ==
    /\ pc = "from_scenes"
    /\ IF scenes = <<>>
       THEN /\ frame_allocation' = frame_allocation
            /\ scene_idx' = scene_idx
            /\ pc' = "durations"
       ELSE /\ frame_allocation' = AllocateFramesToScenes(scenes, max_frames)
            /\ scene_idx' = 1
            /\ pc' = "sample"
    /\ jump_cut_timestamps' = <<>>
    /\ selected_timestamps' = <<>>
    /\ UNCHANGED <<duration, max_frames_per_video, video_length, current_time,
                   previous_frame, scenes, all_frames, frames, cuts_detected,
                   n_calls, decoded>>
    /\ UNCHANGED <<requested, scan>>
    /\ UNCHANGED io_vars

CapExceeded(count, cap) == count > cap

\* extract_frames_from_scenes line 564: len(all_frames) >= max_frames
CapReached(count, cap) == count >= cap

(***************************************************************************)
(* One iteration of the loop of extract_frames_from_scenes: the whole of   *)
(* _extract_scene_frames for scene scene_idx, then the cap check.          *)
(***************************************************************************)
SampleScene ==
    /\ pc = "sample"
    /\ scene_idx <= Len(scenes)
    /\ LET frames_for_scene == frame_allocation[scene_idx]
           calls == SceneCalls(frames_for_scene)
       IN \E extracted \in [1..calls -> BOOLEAN] :
             LET scene_frames == ExtractSceneFrames(scenes[scene_idx], frames_for_scene,
                                                    scene_idx, extracted)
                 extended == all_frames \o scene_frames
             IN /\ (\E i \in 1..calls : extracted[i]) => VideoReadable
                /\ n_calls' = n_calls + calls
                /\ decoded' = (decoded \/ scene_frames # <<>>)
                /\ requested' = Append(requested,
                                       RequestedTimestamps(scenes[scene_idx], frames_for_scene))
                /\ IF CapReached(Len(extended), max_frames)
                   THEN /\ all_frames' = Prefix(extended, max_frames)
                        /\ scene_idx' = scene_idx
                        /\ pc' = "sort"
                   ELSE /\ all_frames' = extended
                        /\ scene_idx' = scene_idx + 1
                        /\ pc' = IF scene_idx = Len(scenes) THEN "sort" ELSE "sample"
    /\ UNCHANGED <<duration, max_frames_per_video, video_length, current_time,
                   previous_frame, jump_cut_timestamps, selected_timestamps,
                   scenes, frame_allocation, frames, cuts_detected, scan>>
    /\ UNCHANGED io_vars

(***************************************************************************)
(* extract_frames_from_scenes after its loop: sort, truncate, return to    *)
(* extract_frames through extract_frames_from_timestamps.                  *)
(***************************************************************************)
SortAndTruncate ==
    /\ pc = "sort"
    /\ frames' = Prefix(SortByTimestamp(all_frames), max_frames)
    /\ all_frames' = <<>>
    /\ pc' = "durations"
    /\ UNCHANGED <<duration, max_frames_per_video, video_length, current_time,
                   previous_frame, jump_cut_timestamps, selected_timestamps,
                   scenes, frame_allocation, scene_idx, cuts_detected, n_calls,
                   decoded>>
    /\ UNCHANGED <<requested, scan>>
    /\ UNCHANGED io_vars

(***************************************************************************)
(* extract_frames, last step: calculate_frame_durations and return.        *)
(***************************************************************************)
AnnotateAndReturn ==
    /\ pc = "durations"
    /\ frames' = CalculateFrameDurations(frames, video_length)
    /\ pc' = "done"
    /\ UNCHANGED <<duration, max_frames_per_video, video_length, current_time,
                   previous_frame, jump_cut_timestamps, selected_timestamps,
                   scenes, frame_allocation, scene_idx, all_frames,
                   cuts_detected, n_calls, decoded>>
    /\ UNCHANGED <<requested, scan>>
    /\ UNCHANGED io_vars

Next ==
    \/ GetVideoLength
    \/ DetectFirstFrame
    \/ DetectScan
    \/ DetectReturn
    \/ ExtractFramesFromTimestamps
    \/ AllocateFrames
    \/ SampleScene
    \/ SortAndTruncate
    \/ AnnotateAndReturn

Spec == Init /\ [][Next]_vars

(***************************************************************************)
(* extract_frames with its scheduling: every call it makes returns, so a   *)
(* step that can be taken is taken.  Budgets range over 1..MaxLiveFrames.  *)
(***************************************************************************)
MaxLiveFrames == 3

InitLive ==
    /\ pc = "start"
    /\ duration \in VideoDurations
    /\ max_frames_per_video \in 1..MaxLiveFrames
    /\ video_length = 0
    /\ scenes = <<>>
    /\ Idle
    /\ IoIdle

SpecLive == InitLive /\ [][Next]_vars /\ WF_vars(Next)

(***************************************************************************)
(* _allocate_frames_to_scenes on its own: a scene list (contiguous scenes   *)
(* of a video, each longer than 0.5 s) and a budget are drawn, and the     *)
(* allocator is applied to them as extract_frames_from_scenes applies it.  *)
(***************************************************************************)
RECURSIVE ScenesOfDurations(_, _)
ScenesOfDurations(durations, start) ==
    IF durations = <<>> THEN <<>>
    ELSE <<[start |-> start, end |-> start + Head(durations),
            duration |-> Head(durations)]>>
         \o ScenesOfDurations(Tail(durations), start + Head(durations))

DurationLists == UNION {[1..n -> SceneDurations] : n \in 1..MaxScenes}

InitAlloc ==
    /\ pc = "from_scenes"
    /\ \E durations \in DurationLists :
          /\ scenes = ScenesOfDurations(durations, 0)
          /\ duration = SeqSum(durations)
          /\ video_length = SeqSum(durations)
    /\ max_frames_per_video \in 1..MaxTotalFrames
    /\ Idle
    /\ IoIdle

NextAlloc == AllocateFrames

SpecAlloc == InitAlloc /\ [][NextAlloc]_vars

(***************************************************************************)
(* extract_frames_from_scenes on its own: the same scene lists and budgets, *)
(* and the whole call, from the allocator to the returned list.            *)
(***************************************************************************)
NextScenes ==
    \/ AllocateFrames
    \/ SampleScene
    \/ SortAndTruncate

SpecScenes == InitAlloc /\ [][NextScenes]_vars

(***************************************************************************)
(* extract_frames_from_timestamps on its own: a video length, a budget and *)
(* a candidate list are drawn, the list being empty or a list the detector *)
(* can return (the t = 0 sentinel, then cuts at sampling instants in       *)
(* increasing order), and the rest of the pipeline runs from there.  The   *)
(* video lengths (0.7 s, 1.4 s) divide by every target_count + 1 drawn, so *)
(* the uniform-interval timestamps are whole ticks.                        *)
(***************************************************************************)
TimestampVideoLengths == {2520, 5040}

\* combined scores of recorded cuts
CutScores == {CombinedScore(-40, 10), CombinedScore(90, 10)}

SampleInstants(vlen) == {k * interval : k \in {j \in 1..(vlen \div interval) : j * interval < vlen}}

CutLists(vlen) ==
    UNION {{cuts \in [1..n -> [timestamp : SampleInstants(vlen), combined_score : CutScores]] :
               \A i \in 1..(n - 1) : cuts[i].timestamp < cuts[i + 1].timestamp} :
           n \in 0..(MaxCandidates - 1)}

CandidateLists(vlen) ==
    {<<>>} \cup {<<first_metrics>> \o cuts : cuts \in CutLists(vlen)}

InitTimestamps ==
    /\ pc = "from_timestamps"
    /\ duration \in TimestampVideoLengths
    /\ video_length = duration
    /\ max_frames_per_video \in 1..MaxFrames
    /\ jump_cut_timestamps \in CandidateLists(duration)
    /\ cuts_detected = Len(jump_cut_timestamps)
    /\ current_time = 0
    /\ previous_frame = None
    /\ selected_timestamps = <<>>
    /\ scenes = <<>>
    /\ frame_allocation = <<>>
    /\ scene_idx = 0
    /\ all_frames = <<>>
    /\ frames = <<>>
    /\ n_calls = 0
    /\ decoded = FALSE
    /\ requested = <<>>
    /\ scan = None
    /\ IoIdle

NextTimestamps ==
    \/ ExtractFramesFromTimestamps
    \/ AllocateFrames
    \/ SampleScene
    \/ SortAndTruncate
    \/ AnnotateAndReturn

SpecTimestamps == InitTimestamps /\ [][NextTimestamps]_vars

(***************************************************************************)
(* select_most_significant_timestamps on its own: a candidate list and a   *)
(* max_count >= 0 are drawn and the ranker is applied to them.             *)
(***************************************************************************)
InitSelect ==
    /\ pc = "select"
    /\ duration \in TimestampVideoLengths
    /\ video_length = duration
    /\ max_frames_per_video \in 0..MaxFrames
    /\ jump_cut_timestamps \in CandidateLists(duration)
    /\ cuts_detected = Len(jump_cut_timestamps)
    /\ current_time = 0
    /\ previous_frame = None
    /\ selected_timestamps = <<>>
    /\ scenes = <<>>
    /\ frame_allocation = <<>>
    /\ scene_idx = 0
    /\ all_frames = <<>>
    /\ frames = <<>>
    /\ n_calls = 0
    /\ decoded = FALSE
    /\ requested = <<>>
    /\ scan = None
    /\ IoIdle

Select ==
    /\ pc = "select"
    /\ selected_timestamps' =
          SelectMostSignificantTimestamps(jump_cut_timestamps, max_frames_per_video)
    /\ pc' = "selected"
    /\ UNCHANGED <<duration, max_frames_per_video, video_length, current_time,
                   previous_frame, jump_cut_timestamps, scenes, frame_allocation,
                   scene_idx, all_frames, frames, cuts_detected, n_calls,
                   decoded, requested, scan>>
    /\ UNCHANGED io_vars

NextSelect == Select

SpecSelect == InitSelect /\ [][NextSelect]_vars

(***************************************************************************)
(* The calls that leave temporary files behind them while they run: two    *)
(* concurrent FrameData.to_base64 calls (two threads or two processes of   *)
(* the service, which share tempfile.gettempdir()), one extract_audio call *)
(* and, once it has returned, one _analyze_single_call_all_frames call.    *)
(* Every step that can raise does so or not, and a removal of an existing  *)
(* path succeeds or fails (the code catches the failure).                  *)
(***************************************************************************)
MaxClock == 1           \* the clock ranges over 0..MaxClock seconds

\* timestamps of the frames encoded: 0 s, 0.3333 s and 0.3347 s
EncodedTimestamps == {0, 1200, 1205}

InitTemp ==
    /\ pc = "done"
    /\ duration = 3600
    /\ video_length = 3600
    /\ max_frames_per_video \in {MaxFrames}
    /\ scenes = <<>>
    /\ Idle
    /\ files = [q \in {VideoPath} |-> "download"]
    /\ now = 0
    /\ enc \in [Encoders -> {[NoCall EXCEPT !.pc = "start", !.timestamp = t] :
                                t \in EncodedTimestamps}]
    /\ audio \in {[NoAudio EXCEPT !.pc = "start", !.ffmpeg_ok = f, !.whisper_ok = w] :
                      f \in BOOLEAN, w \in BOOLEAN}
    /\ analyzer = NoAnalysis
    /\ main_pc = "idle"

pipeline_vars ==
    <<pc, duration, max_frames_per_video, video_length, current_time,
      previous_frame, jump_cut_timestamps, selected_timestamps, scenes,
      frame_allocation, scene_idx, all_frames, frames, cuts_detected,
      n_calls, decoded, requested, scan>>

\* a second passes on the wall clock
Tick ==
    /\ now < MaxClock
    /\ \E c \in Encoders : enc[c].pc = "start"
    /\ now' = now + 1
    /\ UNCHANGED <<pipeline_vars, files, enc, audio, analyzer, main_pc>>

\* to_base64 up to temp_path: to_pil / convert can raise before any file
\* is named
EncodeName(c) ==
    /\ enc[c].pc = "start"
    /\ \E converted \in BOOLEAN :
          enc' = [enc EXCEPT ![c] =
                     IF converted
                     THEN [@ EXCEPT !.pc = "named",
                                    !.temp_path = <<TempPath(enc[c].timestamp, now)>>]
                     ELSE [@ EXCEPT !.pc = "raised"]]
    /\ UNCHANGED <<pipeline_vars, files, now, audio, analyzer, main_pc>>

\* Step 1: pil_img.save(temp_path); a failed save may leave a file behind
EncodeSave(c) ==
    /\ enc[c].pc = "named"
    /\ LET path == enc[c].temp_path[1]
           overwrites == Exists(path) /\ files[path] # c
       IN \E saved \in BOOLEAN, created \in BOOLEAN :
             /\ saved => created
             /\ files' = IF created THEN WriteFile(files, path, c) ELSE files
             /\ enc' = [enc EXCEPT ![c] =
                            [@ EXCEPT !.pc = IF saved THEN "saved" ELSE "finally",
                                      !.raising = ~saved,
                                      !.foreign = @ \/ (created /\ overwrites)]]
    /\ UNCHANGED <<pipeline_vars, now, audio, analyzer, main_pc>>

\* Step 2: Image.open(temp_path) and load(); a missing file raises
EncodeLoad(c) ==
    /\ enc[c].pc = "saved"
    /\ LET path == enc[c].temp_path[1]
       IN \E loaded \in BOOLEAN :
             /\ loaded => Exists(path)
             /\ enc' = [enc EXCEPT ![c] =
                            [@ EXCEPT !.pc = IF loaded THEN "loaded" ELSE "finally",
                                      !.raising = ~loaded,
                                      !.foreign = @ \/ (loaded /\ files[path] # c)]]
    /\ UNCHANGED <<pipeline_vars, files, now, audio, analyzer, main_pc>>

\* Steps 3 to 5, in memory: resize, encode, verify; return or raise ValueError
EncodeFinish(c) ==
    /\ enc[c].pc = "loaded"
    /\ \E valid \in BOOLEAN :
          enc' = [enc EXCEPT ![c] = [@ EXCEPT !.pc = "finally", !.raising = ~valid]]
    /\ UNCHANGED <<pipeline_vars, files, now, audio, analyzer, main_pc>>

\* finally: os.path.exists(temp_path)
EncodeExists(c) ==
    /\ enc[c].pc = "finally"
    /\ enc' = [enc EXCEPT ![c] =
                   [@ EXCEPT !.pc = "remove",
                             !.exists_seen = Exists(enc[c].temp_path[1])]]
    /\ UNCHANGED <<pipeline_vars, files, now, audio, analyzer, main_pc>>

\* finally: os.remove(temp_path) if the file was seen, its failure only
\* logged; then the return or the re-raise
EncodeRemove(c) ==
    /\ enc[c].pc = "remove"
    /\ LET path == enc[c].temp_path[1]
           attempt == enc[c].exists_seen /\ Exists(path)
       IN \E removed \in BOOLEAN :
             /\ removed => attempt
             /\ files' = IF removed THEN RemoveFile(files, path) ELSE files
             /\ enc' = [enc EXCEPT ![c] =
                            [@ EXCEPT !.pc = IF enc[c].raising THEN "raised" ELSE "returned",
                                      !.removal_failed = attempt /\ ~removed,
                                      !.foreign = @ \/ (removed /\ files[path] # c)]]
    /\ UNCHANGED <<pipeline_vars, now, audio, analyzer, main_pc>>

\* extract_audio_from_video: tempfile.mkstemp(suffix=".wav") creates the file
AudioCreate ==
    /\ audio.pc = "start"
    /\ files' = WriteFile(files, WavPath, "audio")
    /\ audio' = [audio EXCEPT !.pc = "created"]
    /\ UNCHANGED <<pipeline_vars, now, enc, analyzer, main_pc>>

\* extract_audio_from_video: ffmpeg runs; it returns the path, or removes
\* the file and raises, which extract_audio turns into an error result
AudioFfmpeg ==
    /\ audio.pc = "created"
    /\ \E removed \in BOOLEAN :
          LET ran == audio.ffmpeg_ok /\ VideoReadable
          IN IF ran
             THEN /\ removed
                  /\ files' = files
                  /\ audio' = [audio EXCEPT !.pc = "extracted",
                                             !.temp_audio_path = <<WavPath>>]
             ELSE /\ files' = IF removed THEN RemoveFile(files, WavPath) ELSE files
                  /\ audio' = [audio EXCEPT !.pc = "finally",
                                             !.result = <<"error">>,
                                             !.removal_failed = ~removed]
    /\ UNCHANGED <<pipeline_vars, now, enc, analyzer, main_pc>>

\* extract_audio: get_audio_duration and transcribe_audio; an exception
\* becomes an error result
AudioTranscribe ==
    /\ audio.pc = "extracted"
    /\ audio' = [audio EXCEPT !.pc = "finally",
                               !.result = IF audio.whisper_ok THEN <<"ok">>
                                          ELSE <<"error">>]
    /\ UNCHANGED <<pipeline_vars, files, now, enc, analyzer, main_pc>>

\* extract_audio, finally: remove the file if a path was returned, a
\* failure only logged; then return the AudioExtraction
AudioFinally ==
    /\ audio.pc = "finally"
    /\ LET attempt == audio.temp_audio_path # None /\ Exists(WavPath)
       IN \E removed \in BOOLEAN :
             /\ removed => attempt
             /\ files' = IF removed THEN RemoveFile(files, WavPath) ELSE files
             /\ audio' = [audio EXCEPT !.pc = "done",
                                        !.removal_failed = @ \/ (attempt /\ ~removed)]
    /\ UNCHANGED <<pipeline_vars, now, enc, analyzer, main_pc>>

\* analyze_advertisement follows extract_audio;
\* _analyze_single_call_all_frames: tempfile.mkdtemp
AnalyzerMkdtemp ==
    /\ analyzer.pc = "idle"
    /\ audio.pc = "done"
    /\ main_pc = "idle"
    /\ files' = WriteFile(files, TempDir, "analyzer")
    /\ analyzer' = [analyzer EXCEPT !.pc = "build"]
    /\ UNCHANGED <<pipeline_vars, now, enc, audio, main_pc>>

\* _build_single_call_content returns or raises
AnalyzerBuild ==
    /\ analyzer.pc = "build"
    /\ \E built \in BOOLEAN :
          analyzer' = [analyzer EXCEPT !.pc = "finally", !.raising = ~built]
    /\ UNCHANGED <<pipeline_vars, files, now, enc, audio, main_pc>>

\* finally: shutil.rmtree(temp_dir), its failure ignored; then the
\* exception goes on, or the rest of the call (the API request, which
\* touches no file) runs and the call returns or raises
AnalyzerFinally ==
    /\ analyzer.pc = "finally"
    /\ \E removed \in BOOLEAN, answered \in BOOLEAN :
          /\ files' = IF removed THEN RemoveFile(files, TempDir) ELSE files
          /\ analyzer' = [analyzer EXCEPT
                              !.pc = IF analyzer.raising \/ ~answered THEN "raised"
                                     ELSE "returned",
                              !.removal_failed = ~removed]
    /\ UNCHANGED <<pipeline_vars, now, enc, audio, main_pc>>

NextTemp ==
    \/ Tick
    \/ \E c \in Encoders : EncodeName(c)
    \/ \E c \in Encoders : EncodeSave(c)
    \/ \E c \in Encoders : EncodeLoad(c)
    \/ \E c \in Encoders : EncodeFinish(c)
    \/ \E c \in Encoders : EncodeExists(c)
    \/ \E c \in Encoders : EncodeRemove(c)
    \/ AudioCreate
    \/ AudioFfmpeg
    \/ AudioTranscribe
    \/ AudioFinally
    \/ AnalyzerMkdtemp
    \/ AnalyzerBuild
    \/ AnalyzerFinally

SpecTemp == InitTemp /\ [][NextTemp]_vars

(***************************************************************************)
(* VideoProcessor.process_video from the parallel extraction on: the       *)
(* frame task (extract_frames, the actions of Spec) and the audio task     *)
(* (extract_audio) run concurrently in executor threads on the downloaded  *)
(* video, asyncio.gather waits for them, and the finally clause deletes    *)
(* the video.                                                              *)
(***************************************************************************)
\* a 1 s video and a 2 s video, which is over the limit
ParallelDurations == {3600, 7200}
ParallelBudgets == {1, 3}

InitParallel ==
    /\ pc = "start"
    /\ duration \in ParallelDurations
    /\ max_frames_per_video \in ParallelBudgets
    /\ video_length = 0
    /\ scenes = <<>>
    /\ Idle
    /\ files = [q \in {VideoPath} |-> "download"]
    /\ now = 0
    /\ enc = [c \in Encoders |-> NoCall]
    /\ audio \in {[NoAudio EXCEPT !.pc = "start", !.ffmpeg_ok = f, !.whisper_ok = w] :
                      f \in BOOLEAN, w \in BOOLEAN}
    /\ analyzer = NoAnalysis
    /\ main_pc = "gather"

\* gather delivers its results as soon as the frame task alone is done
GatherFramesDone == pc = "done"

\* await asyncio.gather(frame_task, audio_task): both results are in
GatherDone == pc = "done" /\ audio.pc = "done"

GatherReturn ==
    /\ main_pc = "gather"
    /\ GatherDone
    /\ main_pc' = "gathered"
    /\ UNCHANGED <<pipeline_vars, files, now, enc, audio, analyzer>>

\* extract_frames raised: gather re-raises at once, the audio task goes on
GatherRaise ==
    /\ main_pc = "gather"
    /\ pc = "raised"
    /\ main_pc' = "failed"
    /\ UNCHANGED <<pipeline_vars, files, now, enc, audio, analyzer>>

\* after the analysis and the saving, or after the except clause: finally
\* unlinks temp_video_path, a failure ignored
CleanupVideo ==
    /\ main_pc \in {"gathered", "failed"}
    /\ \E removed \in BOOLEAN :
          files' = IF removed THEN RemoveFile(files, VideoPath) ELSE files
    /\ main_pc' = "returned"
    /\ UNCHANGED <<pipeline_vars, now, enc, audio, analyzer>>

NextParallel ==
    \/ GetVideoLength
    \/ DetectFirstFrame
    \/ DetectScan
    \/ DetectReturn
    \/ ExtractFramesFromTimestamps
    \/ AllocateFrames
    \/ SampleScene
    \/ SortAndTruncate
    \/ AnnotateAndReturn
    \/ AudioCreate
    \/ AudioFfmpeg
    \/ AudioTranscribe
    \/ AudioFinally
    \/ GatherReturn
    \/ GatherRaise
    \/ CleanupVideo

SpecParallel == InitParallel /\ [][NextParallel]_vars

(***************************************************************************)
(* Properties.                                                             *)
(***************************************************************************)
Sentinel == [timestamp |-> 0, combined_score |-> 0]

IsSortedByTimestamp(s) ==
    \A i \in 1..(Len(s) - 1) : s[i].timestamp <= s[i + 1].timestamp

SumDurations(s) == SeqSum([i \in 1..Len(s) |-> s[i].duration[1]])

C2_SumIsBudget ==
    (pc = "sample" /\ max_frames_per_video >= Len(scenes))
        => SeqSum(frame_allocation) = max_frames_per_video

\* C2 as amended: for a non-empty scene list and a budget of at least one
\* frame per scene, the allocations sum to at most the budget, and to
\* exactly the budget unless the last scene was cut down to the per-scene
\* cap of 6.
C2_SumWithinBudget ==
    (pc = "sample" /\ max_frames_per_video >= Len(scenes))
        => /\ SeqSum(frame_allocation) <= max_frames_per_video
           /\ \/ SeqSum(frame_allocation) = max_frames_per_video
              \/ frame_allocation[Len(frame_allocation)] = MaxFramesPerScene

\* two scenes, the last one capped: the sum falls short of the budget
C2_Witness ==
    /\ pc = "sample"
    /\ Len(scenes) >= 2
    /\ max_frames_per_video >= Len(scenes)
    /\ frame_allocation[Len(frame_allocation)] = MaxFramesPerScene
    /\ SeqSum(frame_allocation) < max_frames_per_video

\* C3 as stated: for a non-empty scene list and a budget of at least one
\* frame per scene, every scene, the last one included, is allocated at
\* least one frame.
C3_EveryAllocationPositive ==
    (pc = "sample" /\ max_frames_per_video >= Len(scenes))
        => \A i \in 1..Len(frame_allocation) : frame_allocation[i] >= 1

\* C4 as stated: the durations annotated on a non-empty returned list sum
\* to the video's length.
C4_DurationsSumToLength ==
    (pc = "done" /\ frames # <<>>) => SumDurations(frames) = video_length

\* C4 as amended: the durations annotated on a non-empty returned list sum
\* to the video's length minus the timestamp of the first returned frame
\* (so to the video's length exactly when the first frame is at t = 0).
C4_DurationsSumFromFirstFrame ==
    (pc = "done" /\ frames # <<>>)
        => SumDurations(frames) = video_length - frames[1].timestamp

\* several frames returned, the first of them after t = 0
C4_Witness ==
    /\ pc = "done"
    /\ Len(frames) >= 2
    /\ frames[1].timestamp > 0

\* C5: when durations are annotated, and in the list returned, the frames
\* are in non-decreasing timestamp order.
C5_SortedWhenAnnotated ==
    pc \in {"durations", "done"} => IsSortedByTimestamp(frames)

\* frames of two scenes are about to be annotated, after some extraction failed
C5_Witness ==
    /\ pc = "durations"
    /\ Len(frames) >= 3
    /\ frames[1].scene_id # frames[Len(frames)].scene_id
    /\ Len(frames) < SeqSum(frame_allocation)

\* C6: the list the detector returns starts with the candidate at
\* timestamp 0 with combined_score 0, also when the frame at t = 0 could
\* not be extracted.
C6_SentinelFirst ==
    pc = "from_timestamps"
        => /\ Len(jump_cut_timestamps) >= 1
           /\ jump_cut_timestamps[1].timestamp = 0
           /\ jump_cut_timestamps[1].combined_score = 0

\* the detector returned after failing to extract the frame at t = 0
C6_Witness ==
    /\ pc = "from_timestamps"
    /\ n_calls = 1
    /\ ~decoded

\* C7 as stated: whenever the ranker is applied with max_count >= 1, the
\* list it returns contains the t = 0 sentinel.
C7_RankerKeepsSentinel ==
    (/\ pc = "from_scenes"
     /\ max_frames_per_video >= 1
     /\ Len(jump_cut_timestamps) > max_frames_per_video)
        => \E i \in 1..Len(selected_timestamps) : selected_timestamps[i] = Sentinel

\* C8 as stated: when the detector yielded only the t = 0 sentinel, the
\* frames returned are frames of the uniform-interval sampling, each tagged
\* 'interval'.
C8_FallsBackToIntervals ==
    (pc = "done" /\ cuts_detected = 1)
        => \A i \in 1..Len(frames) :
              /\ frames[i].frame_type = "interval"
              /\ \E k \in IntervalReached(video_length, max_frames_per_video) :
                    frames[i].timestamp
                        = IntervalTimestamp(video_length, max_frames_per_video, k)

\* C9 as stated: when every extract_single_frame call failed, extract_frames
\* does not return normally.
C9_NoFrameDecodedIsFatal ==
    (n_calls > 0 /\ ~decoded) => pc # "done"

\* C10: a video whose duration exceeds max_video_duration, or cannot be
\* probed, makes extract_frames raise before any extract_single_frame call
\* and without a frame list.
C10_DurationCheckedFirst ==
    /\ duration > max_video_duration
          => /\ pc \in {"start", "raised"}
             /\ n_calls = 0
             /\ frames = <<>>
    /\ pc = "raised" => (n_calls = 0 /\ frames = <<>>)

\* extract_frames raised on a video over the limit
C10_Witness ==
    /\ pc = "raised"
    /\ duration > max_video_duration

\* C11: every frame of the list extract_frames is building or has returned
\* has a timestamp t with 0 <= t < video_length, on the scene-sampling path
\* and on the uniform-interval path alike.
C11_TimestampsInsideVideo ==
    \A i \in 1..Len(frames) :
        /\ 0 <= frames[i].timestamp
        /\ frames[i].timestamp < video_length

\* the uniform-interval path returned its full target of frames
C11_Witness ==
    /\ pc = "done"
    /\ max_frames_per_video >= 3
    /\ Len(frames) = max_frames_per_video
    /\ \A i \in 1..Len(frames) : frames[i].frame_type = "interval"

\* C12: applied to a chronologically ordered candidate list and a
\* max_count >= 0, the ranker returns exactly min(len(candidates), max_count)
\* candidates, each of them an element of the input, in increasing
\* timestamp order.
C12_SelectsExactCount ==
    pc = "selected"
        => /\ Len(selected_timestamps)
                 = Min(Len(jump_cut_timestamps), max_frames_per_video)
           /\ \A i \in 1..Len(selected_timestamps) :
                 \E j \in 1..Len(jump_cut_timestamps) :
                    selected_timestamps[i] = jump_cut_timestamps[j]
           /\ \A i \in 1..(Len(selected_timestamps) - 1) :
                 selected_timestamps[i].timestamp < selected_timestamps[i + 1].timestamp

\* the ranker cut three candidates down to two, dropping the middle one
C12_Witness ==
    /\ pc = "selected"
    /\ Len(jump_cut_timestamps) = 3
    /\ Len(selected_timestamps) = 2
    /\ selected_timestamps[1] = jump_cut_timestamps[1]
    /\ selected_timestamps[2] = jump_cut_timestamps[3]

\* the boundary list handed to the segmenter and the end of the interval
\* its i-th boundary opens
Boundary(i) == selected_timestamps[i].timestamp

IntervalEnd(i) ==
    IF i = Len(selected_timestamps) THEN video_length ELSE Boundary(i + 1)

LongIntervals ==
    {i \in 1..Len(selected_timestamps) : IntervalEnd(i) - Boundary(i) > MinSceneDuration}

\* C13: the segmenter returns, in chronological order, exactly the
\* intervals [b_i, b_i+1) and [b_last, video_length) that are strictly
\* longer than 0.5 s; shorter ones are dropped and nothing is merged, so
\* no two scenes overlap.
C13_ScenesAreTheLongIntervals ==
    pc = "from_scenes"
        => /\ Len(scenes) = Cardinality(LongIntervals)
           /\ \A k \in 1..Len(scenes) :
                 /\ \E i \in LongIntervals :
                       /\ scenes[k].start = Boundary(i)
                       /\ scenes[k].end = IntervalEnd(i)
                 /\ scenes[k].duration = scenes[k].end - scenes[k].start
           /\ \A k \in 1..(Len(scenes) - 1) : scenes[k].end <= scenes[k + 1].start

\* three boundaries, the middle interval exactly 0.5 s long and dropped,
\* a scene kept after it
C13_Witness ==
    /\ pc = "from_scenes"
    /\ Len(selected_timestamps) = 3
    /\ Boundary(3) - Boundary(2) = MinSceneDuration
    /\ Len(scenes) = 1
    /\ scenes[1].start = Boundary(3)

\* C14 as stated: the first scene starts at the first boundary and the
\* last scene ends at video_length.
C14_ScenesSpanToEnd ==
    (pc = "from_scenes" /\ scenes # <<>>)
        => /\ scenes[1].start = Boundary(1)
           /\ scenes[Len(scenes)].end = video_length

\* C14 as amended: every scene lies between the first boundary and
\* video_length; the first scene starts at the first boundary exactly when
\* the interval that boundary opens is longer than 0.5 s, and the last
\* scene ends at video_length exactly when the interval from the last
\* boundary to video_length is longer than 0.5 s.
C14_ScenesWithinSpan ==
    (pc = "from_scenes" /\ scenes # <<>>)
        => /\ Boundary(1) <= scenes[1].start
           /\ scenes[Len(scenes)].end <= video_length
           /\ scenes[1].start = Boundary(1) <=> 1 \in LongIntervals
           /\ scenes[Len(scenes)].end = video_length
                 <=> Len(selected_timestamps) \in LongIntervals

\* the first and the last interval are dropped, the scene between them
\* starts after the first boundary and ends before video_length
C14_Witness ==
    /\ pc = "from_scenes"
    /\ Len(scenes) = 1
    /\ scenes[1].start > Boundary(1)
    /\ scenes[1].end < video_length

\* C15: whatever the scene list and the budget, no scene, the last one
\* included, is allocated more than 6 frames.
C15_PerSceneCap ==
    pc = "sample"
        => /\ Len(frame_allocation) = Len(scenes)
           /\ \A i \in 1..Len(frame_allocation) :
                 frame_allocation[i] <= MaxFramesPerScene

\* a single scene and a budget above the cap: the scene gets 6, not the budget
C15_Witness ==
    /\ pc = "sample"
    /\ Len(scenes) = 1
    /\ max_frames_per_video > MaxFramesPerScene
    /\ frame_allocation = <<MaxFramesPerScene>>

\* the timestamps C16 lists for a scene and a frame count n >= 1
ClaimedTimestamps(scene, n) ==
    IF n = 1 THEN <<scene.start + scene.duration \div 2>>
    ELSE IF n = 2 THEN <<scene.start + scene.duration \div 3,
                         scene.start + (2 * scene.duration) \div 3>>
    ELSE [i \in 1..n |->
             IF i = 1 THEN scene.start
             ELSE IF i = n THEN scene.end - EndMargin
             ELSE scene.start + (scene.duration * (i - 1)) \div (n - 1)]

\* C16: for every scene of the segmenter and every frame count n >= 1 the
\* allocator gives it, _extract_scene_frames asks for exactly: the midpoint
\* (n = 1); the one-third and two-thirds points (n = 2); else the start,
\* the points start + duration * i / (n - 1) for i = 1 .. n - 2, and
\* end - 0.1 s.
C16_RequestedTimestamps ==
    \A k \in 1..Len(requested) :
        frame_allocation[k] >= 1
            => requested[k] = ClaimedTimestamps(scenes[k], frame_allocation[k])

\* a scene was sampled at five positions
C16_Witness ==
    /\ requested # <<>>
    /\ Len(requested[Len(requested)]) = 5

\* C17 as stated: of the frames a scene yields, the first is tagged
\* 'jump_cut' and every later one 'scene_interval', whichever extractions
\* failed.
C17_FirstReturnedIsJumpCut ==
    pc \in {"sample", "sort"}
        => \A i \in 1..Len(all_frames) :
              all_frames[i].frame_type
                  = IF i = 1 \/ all_frames[i - 1].scene_id # all_frames[i].scene_id
                    THEN "jump_cut"
                    ELSE "scene_interval"

Exited(call) == call.pc \in {"returned", "raised"}

C19_NoSharedTempFile ==
    \A c \in Encoders : ~enc[c].foreign

\* main.py: extract_audio run on its own on the downloaded video, after
\* extract_frames has returned
SequentialAudioResult ==
    IF audio.ffmpeg_ok /\ audio.whisper_ok THEN <<"ok">> ELSE <<"error">>

\* C20: run as two concurrent tasks, extract_frames and extract_audio
\* yield what they yield when run one after the other.  Neither writes
\* anything the other reads, so what is checked is that in every
\* interleaving the video stays on disk for as long as the frame task or,
\* the frame task not having raised, the audio task is running, and that
\* the AudioExtraction delivered with a frame list is the one the
\* sequential run gives for the same video.
C20_SameAsSequential ==
    /\ ~VideoReadable => (pc = "raised" \/ (pc = "done" /\ audio.pc = "done"))
    /\ (pc = "done" /\ audio.pc = "done") => audio.result = SequentialAudioResult

\* both tasks ran to their end, frames and a transcript were delivered and
\* the video was deleted afterwards
C20_Witness ==
    /\ main_pc = "returned"
    /\ pc = "done"
    /\ Len(frames) >= 2
    /\ audio.result = <<"ok">>
    /\ ~VideoReadable

\* C21 as stated: when there are more scenes than the budget and every
\* scene before the last is at the floor of 1, the allocations returned
\* total more than the budget.
C21_OverBudgetAtFloor ==
    (/\ pc = "sample"
     /\ Len(scenes) > max_frames_per_video
     /\ \A i \in 1..(Len(frame_allocation) - 1) : frame_allocation[i] = 1)
        => SeqSum(frame_allocation) > max_frames_per_video

\* the allocations never total more than the budget
AllocationWithinBudget ==
    pc = "sample" => SeqSum(frame_allocation) <= max_frames_per_video

\* C22: each sample the detector extracts is compared with the most recent
\* earlier sample whose extraction succeeded; a failed extraction leaves the
\* reference frame alone, a successful one makes the sample the reference
\* frame, whether or not a boundary was recorded there.
C22_ReferenceIsLatestExtracted ==
    pc = "scan" =>
        /\ previous_frame = scan[1].latest_ok
        /\ (scan[1].timestamp > 0 /\ scan[1].extracted)
              => /\ scan[1].compared_with = scan[1].earlier_ok
                 /\ previous_frame = <<scan[1].timestamp>>
        /\ ~scan[1].extracted
              => /\ scan[1].compared_with = None
                 /\ previous_frame = scan[1].earlier_ok

\* a sample was extracted two instants after the reference frame (the
\* instant between them failed), compared with it, and no boundary recorded
C22_Witness ==
    /\ pc = "scan"
    /\ scan[1].extracted
    /\ scan[1].compared_with = <<scan[1].timestamp - 2 * interval>>
    /\ previous_frame = <<scan[1].timestamp>>
    /\ jump_cut_timestamps[Len(jump_cut_timestamps)].timestamp < scan[1].timestamp

\* C23: the candidates the detector returns have strictly increasing
\* timestamps, all below video_length; after the sentinel a candidate is
\* recorded at a sample instant exactly when the extraction there succeeded
\* and the combined similarity was strictly below jump_cut_threshold.
C23_CandidatesRecordedBelowThreshold ==
    /\ pc \in {"scan", "from_timestamps"} =>
          /\ \A i \in 1..Len(jump_cut_timestamps) :
                jump_cut_timestamps[i].timestamp < video_length
          /\ \A i \in 1..(Len(jump_cut_timestamps) - 1) :
                jump_cut_timestamps[i].timestamp < jump_cut_timestamps[i + 1].timestamp
    /\ (pc = "scan" /\ scan[1].timestamp > 0) =>
          ((jump_cut_timestamps[Len(jump_cut_timestamps)].timestamp = scan[1].timestamp)
             <=> (scan[1].extracted /\ scan[1].combined_sim < 4 * jump_cut_threshold))

\* a sample was extracted with a combined similarity of exactly the threshold
\* and is not a candidate, after an earlier sample was recorded as one
C23_Witness ==
    /\ pc = "scan"
    /\ scan[1].extracted
    /\ scan[1].combined_sim = 4 * jump_cut_threshold
    /\ Len(jump_cut_timestamps) = 2
    /\ jump_cut_timestamps[2].timestamp < scan[1].timestamp

\* the candidates of the input that the ranker did not return
Discarded ==
    {j \in 1..Len(jump_cut_timestamps) :
        \A i \in 1..Len(selected_timestamps) :
           selected_timestamps[i] # jump_cut_timestamps[j]}

RECURSIVE CallsOfScenes(_)
CallsOfScenes(n) ==
    IF n = 0 THEN 0 ELSE CallsOfScenes(n - 1) + SceneCalls(frame_allocation[n])

C26_DistinctTimestamps ==
    /\ pc \in {"durations", "done"} =>
          \A i \in 1..(Len(frames) - 1) :
             frames[i].timestamp < frames[i + 1].timestamp
    /\ pc = "done" =>
          \A i \in 1..Len(frames) :
             /\ frames[i].duration # None
             /\ frames[i].duration[1] > 0

\* extract_frames returned frames of two scenes, three or more of them from
\* the second scene
C26_Witness ==
    /\ pc = "done"
    /\ Len(frames) >= 4
    /\ frames[1].scene_id = <<1>>
    /\ frames[Len(frames) - 2].scene_id = <<2>>
    /\ frames[Len(frames)].scene_id = <<2>>

\* C27: in the list extract_frames_from_scenes returns, every frame carries
\* a scene_id k with 1 <= k <= len(scenes) and a timestamp inside scene k's
\* [start, end - 0.1]; along the sorted list the scene ids never decrease.
C27_FramesInsideTheirScene ==
    pc = "durations" =>
        /\ \A i \in 1..Len(frames) :
              /\ frames[i].scene_id # None
              /\ frames[i].scene_id[1] \in 1..Len(scenes)
              /\ scenes[frames[i].scene_id[1]].start <= frames[i].timestamp
              /\ frames[i].timestamp <= scenes[frames[i].scene_id[1]].end - EndMargin
        /\ \A i \in 1..(Len(frames) - 1) :
              frames[i].scene_id[1] <= frames[i + 1].scene_id[1]

\* frames of three scenes were returned, the last of them at the third
\* scene's end - 0.1
C27_Witness ==
    /\ pc = "durations"
    /\ Len(scenes) = 3
    /\ \A k \in 1..3 : \E i \in 1..Len(frames) : frames[i].scene_id = <<k>>
    /\ frames[Len(frames)].timestamp = scenes[3].end - EndMargin

\* C28 as stated: the temporary video is never deleted while the frame task
\* is still running or the audio task has yet to run ffmpeg on it, also when
\* one of the tasks has failed.
C28_VideoKeptWhileTasksRun ==
    ~VideoReadable =>
        /\ pc \in {"done", "raised"}
        /\ audio.pc \notin {"start", "created"}

\* C29: extract_frames always terminates, returning or raising: every
\* iteration of the detector's scan advances current_time by interval, an
\* iteration whose extraction failed included, until the scan leaves the
\* loop, and the allocator's reconciliation comes to an end.
C29_Terminates ==
    /\ <>(pc \in {"done", "raised"})
    /\ [][(pc = "scan" /\ pc' = "scan")
            => current_time' = current_time + interval]_vars
    /\ [](pc = "scan" => current_time < video_length + interval)

\* extract_frames returned after a scan over the whole video in which the
\* last extraction failed, and after every later extraction failed too
C29_Witness ==
    /\ pc = "done"
    /\ decoded
    /\ frames = <<>>
    /\ n_calls > video_length \div interval

\* C30: inside extract_frames_from_timestamps the scene list handed to
\* extract_frames_from_scenes, and so to the allocator, never holds more
\* scenes than max_frames.
C30_ScenesWithinBudget ==
    pc = "from_scenes" => Len(scenes) <= max_frames_per_video

\* more candidates than the budget were cut down by the ranker and the
\* segmenter made as many scenes as the budget allows, two or more
C30_Witness ==
    /\ pc = "from_scenes"
    /\ Len(jump_cut_timestamps) > max_frames_per_video
    /\ Len(scenes) = max_frames_per_video
    /\ Len(scenes) >= 2
====
